---- MODULE Spec2Model ----
(***************************************************************************)
(* Model of the three programs of the repository, each under its own       *)
(* specification: src/upload_to_tiktok.js (Spec, FairSpec, StreamSpec),    *)
(* src/instagram_reel.js (ReelSpec) and src/server.js (ServerSpec).        *)
(*                                                                         *)
(* upload_to_tiktok.js: the script is one async function (the IIFE at the *)
(* end of the file) that awaits three stages in turn:                      *)
(* initializeUploadSession, uploadVideoInChunks                            *)
(* and finalizeUpload.  Every awaited HTTP request is split in two steps,  *)
(* the request leaving and its response arriving; the response is chosen   *)
(* by the remote side.  Under Spec and FairSpec the file is a regular      *)
(* file that nobody writes while it is read, so the read stream delivers   *)
(* highWaterMark bytes per chunk until the rest of the file is shorter     *)
(* than that; under StreamSpec a read may return fewer bytes, and the      *)
(* stream delivers the bytes of the reads that have returned.              *)
(***************************************************************************)
EXTENDS Integers, Sequences, FiniteSets, TLC

\* Bounds of the model.
MaxChunkSize == 3
MaxFileSize == 7
MaxChunks == 2
MaxMediaIds == 2
MaxOauth == 2
MaxCallbacks == 2

VARIABLES
    pc,                   \* position of the async main function
    CHUNK_SIZE,           \* uploadVideoInChunks: const CHUNK_SIZE
    fileExists,           \* the file system: is there a file at videoFilePath
    diskSize,             \* the file system: its size in bytes
    shortReads,           \* the file system: a read may return fewer bytes
                          \* than asked for before the end of the file
    TIKTOK_ACCESS_TOKEN,  \* process.env.TIKTOK_ACCESS_TOKEN
    uploadUrl,            \* main: const uploadUrl
    fileSize,             \* uploadVideoInChunks: const fileSize
    chunkIndex,           \* uploadVideoInChunks: let chunkIndex
    streamPos,            \* fileStream: bytes delivered so far
    requests,             \* every HTTP request issued so far, in order
    inflight,             \* positions in requests that have no response yet
    responses,            \* every response received so far, in order
    acked,                \* chunk indices answered with a 2xx response
    outcome,              \* what main ended with: none, published, failed
    failure,              \* the error main's catch block received
    \* src/instagram_reel.js
    ACCESS_TOKEN,         \* process.env.INSTAGRAM_ACCESS_TOKEN
    BUSINESS_ACCOUNT_ID,  \* process.env.INSTAGRAM_BUSINESS_ACCOUNT_ID
    VIDEO_URL,            \* process.env.INSTAGRAM_VIDEO_URL
    reelPc,               \* position of uploadInstagramReel
    creationId,           \* uploadInstagramReel: const creationId
    reelRequests,         \* every request uploadInstagramReel issued, in order
    reelResponses,        \* every response it received, in order
    reelOutcome,          \* how it ended: none, published, failed
    \* src/server.js and the browser that talks to it
    serverUp,             \* app.listen was called
    jar,                  \* the browser's csrfState cookie (0: none)
    session,              \* req.session.codeVerifier of the browser's session (0: none)
    oauths,               \* the GET /oauth requests, by number
    cbs,                  \* the GET /callback requests, by number
    exchanges             \* the token requests fetch sent

tiktokVars == <<pc, CHUNK_SIZE, fileExists, diskSize, shortReads,
                TIKTOK_ACCESS_TOKEN, uploadUrl, fileSize, chunkIndex, streamPos,
                requests, inflight, responses, acked, outcome, failure>>

reelVars == <<ACCESS_TOKEN, BUSINESS_ACCOUNT_ID, VIDEO_URL, reelPc, creationId,
              reelRequests, reelResponses, reelOutcome>>

serverVars == <<serverUp, jar, session, oauths, cbs, exchanges>>

vars == <<tiktokVars, reelVars, serverVars>>

Min(a, b) == IF a < b THEN a ELSE b

\* The value the source gives CHUNK_SIZE.
SourceChunkSize == 4 * 1024 * 1024

\* Chunk sizes explored: small ones, and the one of the source.
ChunkSizes == (1 .. MaxChunkSize) \cup {SourceChunkSize}

\* File sizes explored for chunk size c: every small size, and the sizes
\* next to the first multiples of c.
FileSizes(c) ==
    (0 .. MaxFileSize)
        \cup {n \in {k * c + d : k \in 0 .. MaxChunks, d \in {-1, 0, 1}} : n >= 0}

\* The environment's values of TIKTOK_ACCESS_TOKEN: set, or not set.
Tokens == {"token", "undefined"}

\* Responses of the three endpoints.  axios resolves on a 2xx status and
\* rejects on any other status and on a transport error.
InitResponses == {"ok_upload_url", "ok_no_upload_url", "http_error", "network_error"}
ChunkResponses == {"ok", "http_error", "network_error"}
PublishResponses == {"ok_data", "ok_no_data", "http_error", "network_error"}

NoFailure == [stage |-> "none", chunk |-> -1, cause |-> "none"]

\* A request as it leaves the process.
InitRequest ==
    [kind |-> "init", index |-> -1, start |-> 0, end |-> 0, length |-> 0,
     total |-> 0, auth |-> TIKTOK_ACCESS_TOKEN, url |-> "init_upload",
     video_id |-> "none"]

\* Content-Range of chunk i: bytes start-end/total.
RangeStart(i) == i * CHUNK_SIZE

RangeEnd_nomin(i) == (i + 1) * CHUNK_SIZE - 1

RangeEnd(i) == Min((i + 1) * CHUNK_SIZE - 1, fileSize - 1)

\* Length of the next chunk the read stream delivers when every read
\* fills the buffer of highWaterMark bytes or reaches the end of the file.
ChunkLength == Min(CHUNK_SIZE, fileSize - streamPos)

\* Most bytes the stream holds when the loop takes its next chunk.  The
\* first chunk is taken as soon as the first read has returned.  While the
\* post of a chunk is awaited the stream goes on reading highWaterMark
\* bytes at a time as long as it holds fewer than highWaterMark bytes, and
\* the loop then takes all it holds as one chunk.
ChunkLengthMax == IF streamPos = 0 THEN CHUNK_SIZE ELSE 2 * CHUNK_SIZE - 1

\* Lengths the next chunk can have: with short reads, any number of bytes
\* from one to the most the stream holds, within the rest of the file.
ChunkLengths ==
    IF shortReads
    THEN 1 .. Min(ChunkLengthMax, fileSize - streamPos)
    ELSE {ChunkLength}

\* The request of a chunk of n bytes: Content-Length is chunk.length, the
\* Content-Range is computed from chunkIndex and CHUNK_SIZE.
ChunkRequest(n) ==
    [kind |-> "chunk", index |-> chunkIndex, start |-> RangeStart(chunkIndex),
     end |-> RangeEnd(chunkIndex), length |-> n, total |-> fileSize,
     auth |-> "none", url |-> uploadUrl, video_id |-> "none"]

PublishRequest(videoId) ==
    [kind |-> "publish", index |-> -1, start |-> 0, end |-> 0, length |-> 0,
     total |-> 0, auth |-> TIKTOK_ACCESS_TOKEN, url |-> "publish",
     video_id |-> videoId]

\* The script instagram_reel.js is not run.
ReelNotRun ==
    /\ ACCESS_TOKEN = "undefined"
    /\ BUSINESS_ACCOUNT_ID = "undefined"
    /\ VIDEO_URL = "undefined"
    /\ reelPc = "not_run"
    /\ creationId = 0
    /\ reelRequests = <<>>
    /\ reelResponses = <<>>
    /\ reelOutcome = "none"

\* The server of server.js is not run.
ServerNotRun ==
    /\ serverUp = FALSE
    /\ jar = 0
    /\ session = 0
    /\ oauths = <<>>
    /\ cbs = <<>>
    /\ exchanges = {}

\* The script is started on a regular file on a local disk, which nobody
\* writes: every read fills the buffer or reaches the end of the file.
Init ==
    /\ pc = "Idle"
    /\ CHUNK_SIZE \in ChunkSizes
    /\ fileExists \in BOOLEAN
    /\ diskSize \in (IF fileExists THEN FileSizes(CHUNK_SIZE) ELSE {0})
    /\ shortReads = FALSE
    /\ TIKTOK_ACCESS_TOKEN \in Tokens
    /\ uploadUrl = "none"
    /\ fileSize = 0
    /\ chunkIndex = 0
    /\ streamPos = 0
    /\ requests = <<>>
    /\ inflight = {}
    /\ responses = <<>>
    /\ acked = {}
    /\ outcome = "none"
    /\ failure = NoFailure
    /\ ReelNotRun
    /\ ServerNotRun

\* A stage throws: its catch block logs and rethrows, main's catch block
\* logs error.message and main returns.
Fail(stage, chunk, cause) ==
    /\ pc' = "done"
    /\ outcome' = "failed"
    /\ failure' = [stage |-> stage, chunk |-> chunk, cause |-> cause]

\* An awaited request leaves: it is logged and has no response yet.
Send(req) ==
    /\ requests' = Append(requests, req)
    /\ inflight' = inflight \cup {Len(requests) + 1}
    /\ UNCHANGED responses

\* The response r to the awaited request arrives.
Receive(r) ==
    /\ responses' = Append(responses, [to |-> CHOOSE k \in inflight : TRUE,
                                       status |-> r])
    /\ inflight' = {}

\* main calls initializeUploadSession, which posts to init_upload.
InitializeUploadSession_request ==
    /\ pc = "Idle"
    /\ Send(InitRequest)
    /\ pc' = "init_wait"
    /\ UNCHANGED <<CHUNK_SIZE, fileExists, diskSize, shortReads,
                   TIKTOK_ACCESS_TOKEN,
                   uploadUrl, fileSize, chunkIndex, streamPos, acked, outcome,
                   failure>>
    /\ UNCHANGED <<reelVars, serverVars>>

\* The response to init_upload with a catch block that logs and does not
\* rethrow: main goes on with an undefined upload URL.
InitializeUploadSession_response_swallow ==
    /\ pc = "init_wait"
    /\ \E r \in InitResponses :
        /\ Receive(r)
        /\ uploadUrl' = IF r = "ok_upload_url" THEN "upload_url" ELSE "undefined"
        /\ pc' = "plan"
    /\ UNCHANGED <<CHUNK_SIZE, fileExists, diskSize, shortReads,
                   TIKTOK_ACCESS_TOKEN,
                   fileSize, chunkIndex, streamPos, requests, acked, outcome,
                   failure>>
    /\ UNCHANGED <<reelVars, serverVars>>

\* The response to init_upload in a main that leaves out the call of
\* uploadVideoInChunks and goes on to finalizeUpload.
InitializeUploadSession_response_skip ==
    /\ pc = "init_wait"
    /\ \E r \in InitResponses :
        /\ Receive(r)
        /\ IF r = "ok_upload_url"
          THEN /\ uploadUrl' = "upload_url"
               /\ pc' = "finalize"
               /\ UNCHANGED <<outcome, failure>>
          ELSE /\ Fail("Authorizing", -1, r)
               /\ UNCHANGED uploadUrl
    /\ UNCHANGED <<CHUNK_SIZE, fileExists, diskSize, shortReads,
                   TIKTOK_ACCESS_TOKEN,
                   fileSize, chunkIndex, streamPos, requests, acked>>
    /\ UNCHANGED <<reelVars, serverVars>>

\* The response to init_upload: the upload URL is returned, or the function
\* throws.
InitializeUploadSession_response ==
    /\ pc = "init_wait"
    /\ \E r \in InitResponses :
        /\ Receive(r)
        /\ IF r = "ok_upload_url"
          THEN /\ uploadUrl' = "upload_url"
               /\ pc' = "plan"
               /\ UNCHANGED <<outcome, failure>>
          ELSE /\ Fail("Authorizing", -1, r)
               /\ UNCHANGED uploadUrl
    /\ UNCHANGED <<CHUNK_SIZE, fileExists, diskSize, shortReads,
                   TIKTOK_ACCESS_TOKEN,
                   fileSize, chunkIndex, streamPos, requests, acked>>
    /\ UNCHANGED <<reelVars, serverVars>>

\* uploadVideoInChunks up to the loop: statSync (throws when there is no
\* file), createReadStream, chunkIndex = 0.
UploadVideoInChunks_open ==
    /\ pc = "plan"
    /\ IF fileExists
       THEN /\ fileSize' = diskSize
            /\ chunkIndex' = 0
            /\ streamPos' = 0
            /\ pc' = "loop"
            /\ UNCHANGED <<outcome, failure>>
       ELSE /\ Fail("Planning", -1, "ENOENT")
            /\ UNCHANGED <<fileSize, chunkIndex, streamPos>>
    /\ UNCHANGED <<CHUNK_SIZE, fileExists, diskSize, shortReads,
                   TIKTOK_ACCESS_TOKEN,
                   uploadUrl, requests, inflight, responses, acked>>
    /\ UNCHANGED <<reelVars, serverVars>>

\* The loop with the await on the post left out: the next iteration starts
\* while the request is still in flight.
UploadVideoInChunks_noawait ==
    /\ pc = "loop"
    /\ streamPos < fileSize
    /\ \E n \in ChunkLengths :
          /\ Send(ChunkRequest(n))
          /\ streamPos' = streamPos + n
    /\ chunkIndex' = chunkIndex + 1
    /\ UNCHANGED <<pc, CHUNK_SIZE, fileExists, diskSize, shortReads,
                   TIKTOK_ACCESS_TOKEN,
                   uploadUrl, fileSize, acked, outcome, failure>>
    /\ UNCHANGED <<reelVars, serverVars>>

\* One iteration of the loop up to its await: the stream delivers a chunk
\* and the chunk is posted to the upload URL.
UploadVideoInChunks_post ==
    /\ pc = "loop"
    /\ streamPos < fileSize
    /\ \E n \in ChunkLengths :
          /\ Send(ChunkRequest(n))
          /\ streamPos' = streamPos + n
    /\ pc' = "chunk_wait"
    /\ UNCHANGED <<CHUNK_SIZE, fileExists, diskSize, shortReads,
                   TIKTOK_ACCESS_TOKEN,
                   uploadUrl, fileSize, chunkIndex, acked, outcome, failure>>
    /\ UNCHANGED <<reelVars, serverVars>>

\* The response to a chunk with a catch block that logs and does not
\* rethrow: the loop goes on after a rejected chunk.
UploadVideoInChunks_response_swallow ==
    /\ pc = "chunk_wait"
    /\ \E r \in ChunkResponses :
        /\ Receive(r)
        /\ acked' = IF r = "ok" THEN acked \cup {chunkIndex} ELSE acked
        /\ chunkIndex' = IF r = "ok" THEN chunkIndex + 1 ELSE chunkIndex
        /\ pc' = "loop"
    /\ UNCHANGED <<CHUNK_SIZE, fileExists, diskSize, shortReads,
                   TIKTOK_ACCESS_TOKEN,
                   uploadUrl, fileSize, streamPos, requests, outcome, failure>>
    /\ UNCHANGED <<reelVars, serverVars>>

\* The response to a chunk in a loop that leaves out chunkIndex++.
UploadVideoInChunks_response_noincrement ==
    /\ pc = "chunk_wait"
    /\ \E r \in ChunkResponses :
        /\ Receive(r)
        /\ IF r = "ok"
          THEN /\ acked' = acked \cup {chunkIndex}
               /\ pc' = "loop"
               /\ UNCHANGED <<outcome, failure>>
          ELSE /\ Fail("Transferring", chunkIndex, r)
               /\ UNCHANGED acked
    /\ UNCHANGED <<CHUNK_SIZE, fileExists, diskSize, shortReads,
                   TIKTOK_ACCESS_TOKEN,
                   uploadUrl, fileSize, chunkIndex, streamPos, requests>>
    /\ UNCHANGED <<reelVars, serverVars>>

\* The response to a chunk in a loop that advances chunkIndex by two.
UploadVideoInChunks_response_skip ==
    /\ pc = "chunk_wait"
    /\ \E r \in ChunkResponses :
        /\ Receive(r)
        /\ IF r = "ok"
          THEN /\ acked' = acked \cup {chunkIndex}
               /\ chunkIndex' = chunkIndex + 2
               /\ pc' = "loop"
               /\ UNCHANGED <<outcome, failure>>
          ELSE /\ Fail("Transferring", chunkIndex, r)
               /\ UNCHANGED <<acked, chunkIndex>>
    /\ UNCHANGED <<CHUNK_SIZE, fileExists, diskSize, shortReads,
                   TIKTOK_ACCESS_TOKEN,
                   uploadUrl, fileSize, streamPos, requests>>
    /\ UNCHANGED <<reelVars, serverVars>>

\* The response to a chunk: chunkIndex++ and the next iteration, or the
\* catch block rethrows.
UploadVideoInChunks_response ==
    /\ pc = "chunk_wait"
    /\ \E r \in ChunkResponses :
        /\ Receive(r)
        /\ IF r = "ok"
          THEN /\ acked' = acked \cup {chunkIndex}
               /\ chunkIndex' = chunkIndex + 1
               /\ pc' = "loop"
               /\ UNCHANGED <<outcome, failure>>
          ELSE /\ Fail("Transferring", chunkIndex, r)
               /\ UNCHANGED <<acked, chunkIndex>>
    /\ UNCHANGED <<CHUNK_SIZE, fileExists, diskSize, shortReads,
                   TIKTOK_ACCESS_TOKEN,
                   uploadUrl, fileSize, streamPos, requests>>
    /\ UNCHANGED <<reelVars, serverVars>>

\* The stream has ended: the loop is left, 'All chunks uploaded
\* successfully!' is logged and uploadVideoInChunks returns.
UploadVideoInChunks_end ==
    /\ pc = "loop"
    /\ streamPos >= fileSize
    /\ pc' = "finalize"
    /\ UNCHANGED <<CHUNK_SIZE, fileExists, diskSize, shortReads,
                   TIKTOK_ACCESS_TOKEN,
                   uploadUrl, fileSize, chunkIndex, streamPos, requests,
                   inflight, responses, acked, outcome, failure>>
    /\ UNCHANGED <<reelVars, serverVars>>

\* main calls finalizeUpload(uploadUrl, ...), which posts to publish.
FinalizeUpload_request ==
    /\ pc = "finalize"
    /\ Send(PublishRequest(uploadUrl))
    /\ pc' = "publish_wait"
    /\ UNCHANGED <<CHUNK_SIZE, fileExists, diskSize, shortReads,
                   TIKTOK_ACCESS_TOKEN,
                   uploadUrl, fileSize, chunkIndex, streamPos, acked, outcome,
                   failure>>
    /\ UNCHANGED <<reelVars, serverVars>>

\* The response to publish in a main that calls finalizeUpload again when
\* it threw.
FinalizeUpload_response_retry ==
    /\ pc = "publish_wait"
    /\ \E r \in PublishResponses :
        /\ Receive(r)
        /\ IF r = "ok_data"
          THEN /\ pc' = "done"
               /\ outcome' = "published"
          ELSE /\ pc' = "finalize"
               /\ UNCHANGED outcome
        /\ UNCHANGED failure
    /\ UNCHANGED <<CHUNK_SIZE, fileExists, diskSize, shortReads,
                   TIKTOK_ACCESS_TOKEN,
                   uploadUrl, fileSize, chunkIndex, streamPos, requests, acked>>
    /\ UNCHANGED <<reelVars, serverVars>>

\* The response to publish: main returns, or finalizeUpload throws.
FinalizeUpload_response ==
    /\ pc = "publish_wait"
    /\ \E r \in PublishResponses :
        /\ Receive(r)
        /\ IF r = "ok_data"
          THEN /\ pc' = "done"
               /\ outcome' = "published"
               /\ UNCHANGED failure
          ELSE Fail("Finalizing", -1, r)
    /\ UNCHANGED <<CHUNK_SIZE, fileExists, diskSize, shortReads,
                   TIKTOK_ACCESS_TOKEN,
                   uploadUrl, fileSize, chunkIndex, streamPos, requests, acked>>
    /\ UNCHANGED <<reelVars, serverVars>>

Next ==
    \/ InitializeUploadSession_request
    \/ InitializeUploadSession_response
    \/ UploadVideoInChunks_open
    \/ UploadVideoInChunks_post
    \/ UploadVideoInChunks_response
    \/ UploadVideoInChunks_end
    \/ FinalizeUpload_request
    \/ FinalizeUpload_response

Spec == Init /\ [][Next]_vars

\* The stage of the workflow main is in: before its first call, in
\* initializeUploadSession, in uploadVideoInChunks before the loop, in the
\* loop, in finalizeUpload, and returned without or with a caught error.
Stage ==
    CASE pc = "Idle" -> "Idle"
      [] pc = "init_wait" -> "Authorizing"
      [] pc = "plan" -> "Planning"
      [] pc \in {"loop", "chunk_wait"} -> "Transferring"
      [] pc \in {"finalize", "publish_wait"} -> "Finalizing"
      [] pc = "done" /\ outcome = "published" -> "Published"
      [] OTHER -> "Failed"

\* With the fairness the event loop and the premise of a response to every
\* request give: a step that can be taken is taken.
FairSpec == Spec /\ WF_vars(Next)

\* The script is started on a file whose reads may return fewer bytes than
\* asked for before the end of the file (read(2) allows it; network and
\* FUSE file systems do it), with the small chunk sizes, so that every
\* split of the file into reads is explored.
StreamInit ==
    /\ pc = "Idle"
    /\ CHUNK_SIZE \in 1 .. MaxChunkSize
    /\ fileExists \in BOOLEAN
    /\ diskSize \in (IF fileExists THEN FileSizes(CHUNK_SIZE) ELSE {0})
    /\ shortReads = TRUE
    /\ TIKTOK_ACCESS_TOKEN \in Tokens
    /\ uploadUrl = "none"
    /\ fileSize = 0
    /\ chunkIndex = 0
    /\ streamPos = 0
    /\ requests = <<>>
    /\ inflight = {}
    /\ responses = <<>>
    /\ acked = {}
    /\ outcome = "none"
    /\ failure = NoFailure
    /\ ReelNotRun
    /\ ServerNotRun

\* The same script on such a file.
StreamSpec == StreamInit /\ [][Next]_vars

\* What the caller of main gets: the promise of the async function.  The
\* catch block of main does not rethrow, so the promise is fulfilled with
\* undefined when main ends, after a failure as after a success.
MainPromise ==
    IF pc = "done"
    THEN [state |-> "fulfilled", value |-> "undefined"]
    ELSE [state |-> "pending", value |-> "undefined"]

\* The start of the Content-Range of the next chunk.
NextChunkOffset == chunkIndex * CHUNK_SIZE

\* The loop of uploadVideoInChunks has been left without a throw.
TransferDone ==
    \/ pc \in {"finalize", "publish_wait"}
    \/ pc = "done" /\ (outcome = "published" \/ failure.stage = "Finalizing")

\* The responses on which the awaiting function goes on; on every other one
\* axios, or the check of the response data, throws.
IsSuccess(status) == status \in {"ok_upload_url", "ok", "ok_data"}

(***************************************************************************)
(* src/instagram_reel.js: uploadInstagramReel creates a media container    *)
(* and publishes it, two awaited requests in one try block.                *)
(***************************************************************************)

\* The script upload_to_tiktok.js is not run.
TikTokNotRun ==
    /\ pc = "Idle"
    /\ CHUNK_SIZE = SourceChunkSize
    /\ fileExists = FALSE
    /\ diskSize = 0
    /\ shortReads = FALSE
    /\ TIKTOK_ACCESS_TOKEN = "undefined"
    /\ uploadUrl = "none"
    /\ fileSize = 0
    /\ chunkIndex = 0
    /\ streamPos = 0
    /\ requests = <<>>
    /\ inflight = {}
    /\ responses = <<>>
    /\ acked = {}
    /\ outcome = "none"
    /\ failure = NoFailure

\* The ids the Graph API gives media containers; 0 stands for undefined.
MediaIds == 1 .. MaxMediaIds

\* Responses to the media request: 2xx with data.id an id or undefined, 2xx
\* with data null, a non-2xx status, a transport error.
CreateMediaResponses ==
    {[status |-> "ok", id |-> i] : i \in MediaIds \cup {0}}
        \cup {[status |-> st, id |-> 0] :
                st \in {"ok_null_data", "http_error", "network_error"}}

\* Responses to the media_publish request.
MediaPublishResponses ==
    {[status |-> st, id |-> 0] : st \in {"ok", "http_error", "network_error"}}

MediaRequest ==
    [kind |-> "media", account |-> BUSINESS_ACCOUNT_ID,
     access_token |-> ACCESS_TOKEN, video_url |-> VIDEO_URL, creation_id |-> 0]

MediaPublishRequest(id) ==
    [kind |-> "media_publish", account |-> BUSINESS_ACCOUNT_ID,
     access_token |-> ACCESS_TOKEN, video_url |-> "none", creation_id |-> id]

ReelInit ==
    /\ TikTokNotRun
    /\ ServerNotRun
    /\ ACCESS_TOKEN \in {"undefined", "ig_token"}
    /\ BUSINESS_ACCOUNT_ID \in {"undefined", "account"}
    /\ VIDEO_URL \in {"undefined", "video_url"}
    /\ reelPc = "start"
    /\ creationId = 0
    /\ reelRequests = <<>>
    /\ reelResponses = <<>>
    /\ reelOutcome = "none"

\* uploadInstagramReel up to its first await: the media request is posted.
UploadInstagramReel_create ==
    /\ reelPc = "start"
    /\ reelRequests' = Append(reelRequests, MediaRequest)
    /\ reelPc' = "create_wait"
    /\ UNCHANGED <<ACCESS_TOKEN, BUSINESS_ACCOUNT_ID, VIDEO_URL, creationId,
                   reelResponses, reelOutcome>>
    /\ UNCHANGED <<tiktokVars, serverVars>>

\* The response to the media request in a function that catches the error
\* of the first request on its own and goes on to publish.
UploadInstagramReel_created_goes_on ==
    /\ reelPc = "create_wait"
    /\ \E r \in CreateMediaResponses :
        /\ reelResponses' = Append(reelResponses, r)
        /\ creationId' = r.id
        /\ reelRequests' = Append(reelRequests, MediaPublishRequest(r.id))
        /\ reelPc' = "publish_wait"
    /\ UNCHANGED <<ACCESS_TOKEN, BUSINESS_ACCOUNT_ID, VIDEO_URL, reelOutcome>>
    /\ UNCHANGED <<tiktokVars, serverVars>>

\* The response to the media request: creationId = data.id and the
\* media_publish request is posted, or the catch block logs the error.
UploadInstagramReel_created ==
    /\ reelPc = "create_wait"
    /\ \E r \in CreateMediaResponses :
        /\ reelResponses' = Append(reelResponses, r)
        /\ IF r.status = "ok"
          THEN /\ creationId' = r.id
               /\ reelRequests' = Append(reelRequests, MediaPublishRequest(r.id))
               /\ reelPc' = "publish_wait"
               /\ UNCHANGED reelOutcome
          ELSE /\ reelPc' = "done"
               /\ reelOutcome' = "failed"
               /\ UNCHANGED <<creationId, reelRequests>>
    /\ UNCHANGED <<ACCESS_TOKEN, BUSINESS_ACCOUNT_ID, VIDEO_URL>>
    /\ UNCHANGED <<tiktokVars, serverVars>>

\* The response to the media_publish request: the function logs the
\* success, or its catch block logs the error.
UploadInstagramReel_published ==
    /\ reelPc = "publish_wait"
    /\ \E r \in MediaPublishResponses :
        /\ reelResponses' = Append(reelResponses, r)
        /\ reelOutcome' = IF r.status = "ok" THEN "published" ELSE "failed"
    /\ reelPc' = "done"
    /\ UNCHANGED <<ACCESS_TOKEN, BUSINESS_ACCOUNT_ID, VIDEO_URL, creationId,
                   reelRequests>>
    /\ UNCHANGED <<tiktokVars, serverVars>>

ReelNext ==
    \/ UploadInstagramReel_create
    \/ UploadInstagramReel_created
    \/ UploadInstagramReel_published

ReelSpec == ReelInit /\ [][ReelNext]_vars

(***************************************************************************)
(* src/server.js: the routes GET /oauth and GET /callback, and one browser *)
(* that holds a session of the server.  A request is sent with the cookies *)
(* the browser has at that moment and is handled later; the Set-Cookie of  *)
(* a response reaches the browser later still.  The handler of /oauth has  *)
(* no await and is one step; the handler of /callback awaits fetch and     *)
(* then response.json(), and handlers of other requests run at each await. *)
(* crypto.randomBytes gives the n-th /oauth handled the n-th state and the *)
(* n-th verifier; 0 stands for undefined.                                  *)
(***************************************************************************)

\* crypto.createHash('sha256').update(codeVerifier).digest('base64url')
CodeChallenge(codeVerifier) == <<"S256", codeVerifier>>

\* How the fetch of /callback settles: with the response (its headers; the
\* body is still to come), or it throws.
FetchResults == {"response", "throws"}

\* How response.json() settles: data with an access_token, data without
\* one, or it throws (the body is no JSON) or reading data.access_token
\* throws (data is null).
TokenReplies == {"access_token", "no_access_token", "throws"}

ServerInit ==
    /\ TikTokNotRun
    /\ ReelNotRun
    /\ serverUp = TRUE
    /\ jar = 0
    /\ session = 0
    /\ oauths = <<>>
    /\ cbs = <<>>
    /\ exchanges = {}

\* The /oauth requests the server has handled.
OauthHandled == {i \in 1 .. Len(oauths) : oauths[i].pc # "sent"}

\* The browser sends GET /oauth.
Browser_oauth ==
    /\ serverUp
    /\ Len(oauths) < MaxOauth
    /\ oauths' = Append(oauths, [pc |-> "sent", state |-> 0, codeVerifier |-> 0,
                                 codeChallenge |-> CodeChallenge(0)])
    /\ UNCHANGED <<serverUp, jar, session, cbs, exchanges>>
    /\ UNCHANGED <<tiktokVars, reelVars>>

\* app.get('/oauth'): a state for the csrfState cookie, a code verifier for
\* the session, and the redirect with the state and the challenge.
Oauth_handle(i) ==
    /\ oauths[i].pc = "sent"
    /\ LET n == Cardinality(OauthHandled) + 1
       IN  /\ session' = n
           /\ oauths' = [oauths EXCEPT
                            ![i] = [pc |-> "answered", state |-> n,
                                    codeVerifier |-> n,
                                    codeChallenge |-> CodeChallenge(n)]]
    /\ UNCHANGED <<serverUp, jar, cbs, exchanges>>
    /\ UNCHANGED <<tiktokVars, reelVars>>

\* The browser gets the redirect of /oauth and stores the csrfState cookie.
Browser_redirected(i) ==
    /\ oauths[i].pc = "answered"
    /\ jar' = oauths[i].state
    /\ oauths' = [oauths EXCEPT ![i].pc = "received"]
    /\ UNCHANGED <<serverUp, session, cbs, exchanges>>
    /\ UNCHANGED <<tiktokVars, reelVars>>

\* The browser sends GET /callback: without a state, or sent back by the
\* authorization page with the state (and a code) of a redirect it got.
Browser_callback(q) ==
    /\ serverUp
    /\ Len(cbs) < MaxCallbacks
    /\ cbs' = Append(cbs, [pc |-> "sent", cookie |-> jar, state |-> q,
                           code |-> q, codeVerifier |-> 0,
                           tokenReply |-> "none", replies |-> <<>>])
    /\ UNCHANGED <<serverUp, jar, session, oauths, exchanges>>
    /\ UNCHANGED <<tiktokVars, reelVars>>

\* The states the browser can send to /callback.
CallbackStates ==
    {0} \cup {oauths[i].state : i \in {j \in 1 .. Len(oauths) : oauths[j].pc = "received"}}

\* app.get('/callback') without the comparison of the state with the
\* cookie.
Callback_handle_nocsrf(i) ==
    /\ cbs[i].pc = "sent"
    /\ IF session = 0
       THEN /\ cbs' = [cbs EXCEPT ![i].pc = "done", ![i].replies = <<500>>]
            /\ UNCHANGED exchanges
       ELSE /\ cbs' = [cbs EXCEPT ![i].pc = "awaiting",
                                  ![i].codeVerifier = session]
            /\ exchanges' = exchanges \cup
                  {[cb |-> i, code |-> cbs[i].code, state |-> cbs[i].state,
                    code_verifier |-> session]}
    /\ UNCHANGED <<serverUp, jar, session, oauths>>
    /\ UNCHANGED <<tiktokVars, reelVars>>

\* app.get('/callback') up to await fetch: 403 when the state is not the
\* csrfState cookie, 500 when the session has no code verifier, else the
\* token request is sent.
Callback_handle(i) ==
    /\ cbs[i].pc = "sent"
    /\ IF cbs[i].cookie # cbs[i].state
       THEN /\ cbs' = [cbs EXCEPT ![i].pc = "done", ![i].replies = <<403>>]
            /\ UNCHANGED exchanges
       ELSE IF session = 0
       THEN /\ cbs' = [cbs EXCEPT ![i].pc = "done", ![i].replies = <<500>>]
            /\ UNCHANGED exchanges
       ELSE /\ cbs' = [cbs EXCEPT ![i].pc = "awaiting",
                                  ![i].codeVerifier = session]
            /\ exchanges' = exchanges \cup
                  {[cb |-> i, code |-> cbs[i].code, state |-> cbs[i].state,
                    code_verifier |-> session]}
    /\ UNCHANGED <<serverUp, jar, session, oauths>>
    /\ UNCHANGED <<tiktokVars, reelVars>>

\* The status app.get('/callback') sends once response.json() has settled.
CallbackStatus(r) ==
    CASE r = "access_token" -> 200
      [] r = "no_access_token" -> 400
      [] OTHER -> 500

\* app.get('/callback') from the settling of fetch to its second await:
\* response.json() is called, or the catch block sends 500.
Callback_fetched(i) ==
    /\ cbs[i].pc = "awaiting"
    /\ \E f \in FetchResults :
          cbs' = IF f = "response"
                 THEN [cbs EXCEPT ![i].pc = "parsing"]
                 ELSE [cbs EXCEPT
                          ![i].pc = "done",
                          ![i].tokenReply = "throws",
                          ![i].replies = Append(cbs[i].replies, 500)]
    /\ UNCHANGED <<serverUp, jar, session, oauths, exchanges>>
    /\ UNCHANGED <<tiktokVars, reelVars>>

\* app.get('/callback') after response.json(), without the catch block:
\* when it throws, nothing is sent.
Callback_replied_nocatch(i) ==
    /\ cbs[i].pc = "parsing"
    /\ \E r \in TokenReplies :
          cbs' = [cbs EXCEPT
                     ![i].pc = "done",
                     ![i].tokenReply = r,
                     ![i].replies = IF r = "throws"
                                    THEN cbs[i].replies
                                    ELSE Append(cbs[i].replies, CallbackStatus(r))]
    /\ UNCHANGED <<serverUp, jar, session, oauths, exchanges>>
    /\ UNCHANGED <<tiktokVars, reelVars>>

\* app.get('/callback') after response.json() has settled: 200 with the
\* access token, 400 without one, 500 from the catch block.
Callback_replied(i) ==
    /\ cbs[i].pc = "parsing"
    /\ \E r \in TokenReplies :
          cbs' = [cbs EXCEPT
                     ![i].pc = "done",
                     ![i].tokenReply = r,
                     ![i].replies = Append(cbs[i].replies, CallbackStatus(r))]
    /\ UNCHANGED <<serverUp, jar, session, oauths, exchanges>>
    /\ UNCHANGED <<tiktokVars, reelVars>>

ServerNext ==
    \/ Browser_oauth
    \/ \E i \in 1 .. Len(oauths) : Oauth_handle(i)
    \/ \E i \in 1 .. Len(oauths) : Browser_redirected(i)
    \/ \E q \in CallbackStates : Browser_callback(q)
    \/ \E i \in 1 .. Len(cbs) : Callback_handle(i)
    \/ \E i \in 1 .. Len(cbs) : Callback_fetched(i)
    \/ \E i \in 1 .. Len(cbs) : Callback_replied(i)

ServerSpec == ServerInit /\ [][ServerNext]_vars

(***************************************************************************)
(* Properties.                                                             *)
(***************************************************************************)

CeilDiv(a, b) == (a + b - 1) \div b

\* The chunk requests issued so far, in the order they were issued.
ChunkReqs == SelectSeq(requests, LAMBDA r : r.kind = "chunk")

PublishReqs == SelectSeq(requests, LAMBDA r : r.kind = "publish")

InitReqs == SelectSeq(requests, LAMBDA r : r.kind = "init")

C2_OneInFlight ==
    /\ Cardinality({k \in inflight : requests[k].kind = "chunk"}) <= 1
    /\ \A i \in 1 .. Len(ChunkReqs) : ChunkReqs[i].index = i - 1

\* A step that issues the request for chunk k is taken while no request is
\* in flight and, for k > 0, after chunk k-1 got a success response.
C2_SendStep ==
    (/\ Len(requests') = Len(requests) + 1
     /\ requests'[Len(requests')].kind = "chunk")
        => LET k == requests'[Len(requests')].index
           IN  /\ inflight = {}
               /\ k = Len(ChunkReqs)
               /\ \A j \in 0 .. (k - 1) : j \in acked

\* C2: the request for chunk i+1 is never sent before the request for chunk
\* i has been answered with a success response; at every moment at most one
\* chunk request is in flight; the indices of the requests issued are
\* 0, 1, 2, ... with none skipped or out of order.
C2_ChunksSentInOrder == [](C2_OneInFlight) /\ [][C2_SendStep]_vars

\* The request for the third chunk is in flight.
C2_Witness ==
    /\ pc = "chunk_wait"
    /\ chunkIndex = 2
    /\ inflight # {}

\* C3: if the request for chunk k got a non-2xx response or a transport
\* error, then no request was issued after it (no later chunk, no publish
\* request), and main ended in the failed outcome, attributed to the
\* transfer and to chunk k.
C3_ChunkFailureStopsTransfer ==
    \A j \in 1 .. Len(responses) :
        (/\ requests[responses[j].to].kind = "chunk"
         /\ ~IsSuccess(responses[j].status))
            => /\ Len(requests) = responses[j].to
               /\ PublishReqs = <<>>
               /\ \A i \in 1 .. Len(ChunkReqs) :
                     ChunkReqs[i].index <= requests[responses[j].to].index
               /\ pc = "done"
               /\ outcome = "failed"
               /\ failure.stage = "Transferring"
               /\ failure.chunk = requests[responses[j].to].index

\* The second chunk was rejected after the first was accepted, and the file
\* has a third chunk.
C3_Witness ==
    /\ Len(responses) = 3
    /\ responses[3].status = "http_error"
    /\ requests[responses[3].to].kind = "chunk"
    /\ requests[responses[3].to].index = 1
    /\ fileSize > 2 * CHUNK_SIZE

\* C4: the publish request is issued only after the transfer is complete:
\* the chunk whose byte end is S - 1 has been acknowledged, and no chunk is
\* unsent or unacknowledged.
C4_PublishOnlyAfterLastChunkAcked ==
    (PublishReqs # <<>>) =>
        /\ \E i \in 1 .. Len(ChunkReqs) :
              /\ ChunkReqs[i].end = fileSize - 1
              /\ ChunkReqs[i].index \in acked
        /\ \A k \in 0 .. (CeilDiv(fileSize, CHUNK_SIZE) - 1) : k \in acked

\* C5: for a file of 0 bytes no request of any kind is issued, and the
\* workflow ends failed with an empty-file cause.
C5_EmptyFileFailsWithoutNetwork ==
    (fileExists /\ diskSize = 0) =>
        /\ requests = <<>>
        /\ (pc = "done" => outcome = "failed" /\ failure.cause = "empty_file")

StageRank(s) ==
    CASE s = "Idle" -> 0
      [] s = "Authorizing" -> 1
      [] s = "Planning" -> 2
      [] s = "Transferring" -> 3
      [] s = "Finalizing" -> 4
      [] s = "Published" -> 5
      [] OTHER -> 6

\* A step that changes the stage leaves a stage that is not terminal and
\* enters the next stage of the order, or Failed.
C6_Step ==
    (Stage' # Stage) =>
        /\ Stage \notin {"Published", "Failed"}
        /\ \/ StageRank(Stage') = StageRank(Stage) + 1
           \/ Stage' = "Failed"

\* C6: the workflow starts in Idle and passes through Idle, Authorizing,
\* Planning, Transferring, Finalizing, Published in this order; a failure
\* moves it from a non-terminal stage to Failed; no stage is re-entered;
\* Published and Failed are never left.
C6_StagesInOrder == (Stage = "Idle") /\ [][C6_Step]_vars

\* A run over a file of several chunks has ended published.
C6_Witness ==
    /\ Stage = "Published"
    /\ Len(ChunkReqs) >= 2

\* A response on which a stage throws is the response to the last request
\* issued and main has ended failed; when it is the init response, no chunk
\* and no publish request was issued.
C7_NothingAfterFailure ==
    /\ outcome = "failed" => (pc = "done" /\ inflight = {})
    /\ \A j \in 1 .. Len(responses) :
          ~IsSuccess(responses[j].status)
              => /\ Len(requests) = responses[j].to
                 /\ outcome = "failed"
                 /\ (requests[responses[j].to].kind = "init")
                       => (ChunkReqs = <<>> /\ PublishReqs = <<>>)

\* C7: once a stage has failed no further request is issued; when the init
\* call is rejected, no chunk request and no publish request occurs.
C7_NoRequestAfterFailure ==
    [](C7_NothingAfterFailure) /\ [][outcome = "failed" => requests' = requests]_vars

\* The init call was rejected.
C7_Witness ==
    /\ failure.stage = "Authorizing"
    /\ Len(responses) = 1
    /\ responses[1].status = "http_error"
    /\ fileExists
    /\ diskSize > 0

\* C8: if every chunk was acknowledged and the publish request failed, main
\* ended failed, attributed to finalizing; every chunk was sent once, and
\* one publish request was issued, the last request of the run.
C8_PublishFailureIsFinal ==
    \A j \in 1 .. Len(responses) :
        (/\ requests[responses[j].to].kind = "publish"
         /\ ~IsSuccess(responses[j].status))
            => /\ pc = "done"
               /\ outcome = "failed"
               /\ failure.stage = "Finalizing"
               /\ Len(PublishReqs) = 1
               /\ Len(requests) = responses[j].to
               /\ Len(ChunkReqs) = Cardinality(acked)
               /\ \A a, b \in 1 .. Len(ChunkReqs) :
                     ChunkReqs[a].index = ChunkReqs[b].index => a = b

\* The publish request was rejected after two or more chunks were
\* acknowledged.
C8_Witness ==
    /\ failure.stage = "Finalizing"
    /\ failure.cause = "http_error"
    /\ Cardinality(acked) >= 2

C11_NoAuthenticatedCallWithoutToken ==
    (TIKTOK_ACCESS_TOKEN = "undefined") =>
        /\ \A i \in 1 .. Len(requests) :
              requests[i].kind \in {"init", "publish"}
                  => requests[i].auth # "undefined"
        /\ (pc = "done")
              => (outcome = "failed" /\ failure.cause = "missing_credential")

\* C12: the video_id of the publish request is not the upload URL the chunk
\* requests were sent to.
C12_VideoIdIsNotUploadUrl ==
    \A i \in 1 .. Len(requests) :
        (requests[i].kind = "publish")
            => /\ requests[i].video_id # uploadUrl
               /\ \A j \in 1 .. Len(requests) :
                     (requests[j].kind = "chunk")
                         => requests[j].url # requests[i].video_id

\* C13: when a stage failed, what the caller of main gets is a failure with
\* the cause the stage raised, and it differs from what the caller gets
\* after a success.
C13_FailureReachesCaller ==
    (pc = "done" /\ outcome = "failed")
        => /\ MainPromise.state = "rejected"
           /\ MainPromise.value = failure.cause

\* At most one init request, at most ceil(S/C) chunk requests and at most
\* one publish request have been issued.
C14_RequestBudget ==
    /\ Len(InitReqs) <= 1
    /\ Len(ChunkReqs) <= CeilDiv(diskSize, CHUNK_SIZE)
    /\ Len(PublishReqs) <= 1

C15_LengthMatchesRange ==
    \A i \in 1 .. Len(ChunkReqs) :
        /\ ChunkReqs[i].length = ChunkReqs[i].end - ChunkReqs[i].start + 1
        /\ ChunkReqs[i].total = fileSize
        /\ ChunkReqs[i].total = diskSize

MediaPublishReqs == SelectSeq(reelRequests, LAMBDA r : r.kind = "media_publish")

\* C16: uploadInstagramReel issues the media_publish request at most once,
\* and only as its second request, after the media request was answered
\* with success, with creation_id the id of that response; when the media
\* request failed, no media_publish request is issued.
C16_PublishOnceAfterCreation ==
    /\ Len(MediaPublishReqs) <= 1
    /\ \A k \in 1 .. Len(reelRequests) :
          (reelRequests[k].kind = "media_publish")
              => /\ k = 2
                 /\ reelRequests[1].kind = "media"
                 /\ Len(reelResponses) >= 1
                 /\ reelResponses[1].status = "ok"
                 /\ reelRequests[k].creation_id = reelResponses[1].id
    /\ (Len(reelResponses) >= 1 /\ reelResponses[1].status # "ok")
          => (MediaPublishReqs = <<>> /\ reelOutcome = "failed")

\* The container was created with an id and the publish request for it was
\* answered.
C16_Witness ==
    /\ reelPc = "done"
    /\ Len(MediaPublishReqs) = 1
    /\ MediaPublishReqs[1].creation_id \in MediaIds
    /\ reelOutcome = "published"

\* The token requests sent for the /callback request i.
ExchangesOf(i) == {e \in exchanges : e.cb = i}

\* C17: /callback sends a token request only if the state parameter equals
\* the csrfState cookie of the request and the session holds a code
\* verifier; a state mismatch is answered with 403 and a missing verifier
\* with 500, and in both cases no token request is sent.
C17_ExchangeOnlyAfterChecks ==
    \A i \in 1 .. Len(cbs) :
        /\ (ExchangesOf(i) # {})
              => /\ cbs[i].cookie = cbs[i].state
                 /\ cbs[i].codeVerifier # 0
                 /\ \A e \in ExchangesOf(i) :
                       e.code_verifier = cbs[i].codeVerifier
        /\ (cbs[i].pc # "sent" /\ cbs[i].cookie # cbs[i].state)
              => (cbs[i].replies = <<403>> /\ ExchangesOf(i) = {})
        /\ (cbs[i].pc # "sent" /\ cbs[i].cookie = cbs[i].state
                /\ cbs[i].codeVerifier = 0)
              => (cbs[i].replies = <<500>> /\ ExchangesOf(i) = {})

\* One /callback was refused with 403 and another sent its token request.
C17_Witness ==
    /\ \E i \in 1 .. Len(cbs) : cbs[i].replies = <<403>>
    /\ \E i \in 1 .. Len(cbs) :
          cbs[i].pc = "awaiting" /\ ExchangesOf(i) # {} /\ cbs[i].state # 0

\* C18: whenever /callback sends a token request for a state that an /oauth
\* request issued, the code_verifier it sends is the verifier that same
\* /oauth request generated.
C18_VerifierOfAcceptedState ==
    \A e \in exchanges :
        (\E i \in OauthHandled : oauths[i].state = e.state)
            => \E i \in OauthHandled :
                  /\ oauths[i].state = e.state
                  /\ oauths[i].codeVerifier = e.code_verifier
                  /\ oauths[i].codeChallenge = CodeChallenge(e.code_verifier)

\* C19: a /callback request gets no response before its handler ends and
\* exactly one when it has ended, with status 200, 400, 403 or 500: 200
\* only when the token reply has an access_token, 400 when it has none, 500
\* when the exchange throws.
C19_OneResponsePerCallback ==
    \A i \in 1 .. Len(cbs) :
        /\ (cbs[i].pc # "done") => (cbs[i].replies = <<>>)
        /\ (cbs[i].pc = "done")
              => /\ Len(cbs[i].replies) = 1
                 /\ cbs[i].replies[1] \in {200, 400, 403, 500}
                 /\ (cbs[i].replies[1] = 200)
                       => (cbs[i].tokenReply = "access_token")
                 /\ (cbs[i].tokenReply = "no_access_token")
                       => (cbs[i].replies[1] = 400)
                 /\ (cbs[i].tokenReply = "throws")
                       => (cbs[i].replies[1] = 500)
                 /\ (cbs[i].replies[1] = 400)
                       => (cbs[i].tokenReply = "no_access_token")

\* One /callback was answered 200 and another 500 after its exchange threw,
\* while an /oauth request was handled between the two awaits of a handler.
C19_Witness ==
    /\ \E i \in 1 .. Len(cbs) : cbs[i].replies = <<200>>
    /\ \E i \in 1 .. Len(cbs) :
          cbs[i].replies = <<500>> /\ cbs[i].tokenReply = "throws"
    /\ \E i \in 1 .. Len(cbs) :
          cbs[i].pc = "done" /\ cbs[i].codeVerifier \notin {0, session}

====
